---- MODULE Spec2Model ----
(***************************************************************************)
(* rununiproc: launch one child process suspended, bind it to a job object *)
(* whose affinity limit is one CPU, resume it, wait for it and forward its *)
(* exit code.  The repository holds two variants of wmain: the direct one  *)
(* (rununiproc.cpp lines 50-193) passes argv[1] to CreateProcess, the      *)
(* search one (lines 251-426) resolves argv[1] with SearchPath first.      *)
(*                                                                         *)
(* Pointer-width bit masks (DWORD_PTR) are modelled as the set of the      *)
(* positions of their set bits, bit 0 being the least significant one.     *)
(***************************************************************************)
EXTENDS Integers, Sequences, FiniteSets, TLC

\* ---------------------------------------------------------------- bounds
MaxArgc == 4          \* argc ranges over 1..MaxArgc
MaxExitCode == 2      \* the child exits with a code in 0..MaxExitCode
MaxExtraCpus == 1     \* CPUs allowed above the lowest one in a mask

\* ------------------------------------------------------ program constants
exePathBufLen == 32767           \* DWORD const exePathBufLen
IntBits == 32                    \* width of int, the type of (1 << index)
PointerWidths == {32, 64}        \* DWORD_PTR: _BitScanForward / 64
Variants == {"direct", "search"}

Resources == {"exePathBuf", "job", "attrList", "childProcess", "childMainThread"}

VARIABLES
  variant,              \* which wmain is running
  width,                \* pointer width of the build
  argc,                 \* number of arguments, the program name included
  argv,                 \* argv[i]: the text of argument i, 1 <= i < argc
  pc,                   \* position of wmain
  ret,                  \* value returned by wmain (when pc = "returned")
  calls,                \* the steps taken so far, each with its outcome
  stderr,               \* the diagnostics written so far
  held,                 \* held[r]: the owning local of r holds a non-null pointer
  acq,                  \* acq[r]: how many times r was acquired
  rel,                  \* rel[r]: how many times r was released
  pathLen,              \* DWORD pathLen
  processAffinityMask,  \* DWORD_PTR processAffinityMask
  index,                \* unsigned long index (meaningful when indexSet)
  indexSet,             \* the bit scan has stored index
  basicLimitInfo,       \* JOBOBJECT_BASIC_LIMIT_INFORMATION (meaningful when limitSet)
  limitSet,             \* basicLimitInfo has been filled in
  jobLimit,             \* the limit the job object carries ("none" flags before)
  attrState,            \* the attribute list buffer
  attrTornDown,         \* on what DeleteProcThreadAttributeList was called
  cmdLine,              \* std::wstring cmdLine
  cmdLineSize,          \* cmdLine.size()
  created,              \* what CreateProcess was called with (when attempted)
  child,                \* the child process
  childExit,            \* the child's exit code once it is dead
  childInJob,           \* the child is a member of the job object
  exitCode              \* DWORD exitCode

vars == <<variant, width, argc, argv, pc, ret, calls, stderr, held, acq, rel,
          pathLen, processAffinityMask, index, indexSet, basicLimitInfo,
          limitSet, jobLimit, attrState, attrTornDown, cmdLine, cmdLineSize,
          created, child, childExit, childInJob, exitCode>>

\* ------------------------------------------------------------ input sets
ExitCodes == 0..MaxExitCode

\* A text (wchar_t string) is a sequence of runs [c |-> character, n |-> how
\* many times it is repeated], so that texts as long as the path buffer can be
\* written down; two texts are the same string when their canonical forms,
\* in which no two neighbouring runs have the same character, are equal.
Run(c, n) == [c |-> c, n |-> n]

RECURSIVE StrLen(_)
StrLen(t) == IF t = <<>> THEN 0 ELSE t[1].n + StrLen(Tail(t))

RECURSIVE Canon(_)
Canon(t) ==
  IF t = <<>> THEN <<>>
  ELSE IF t[1].n = 0 THEN Canon(Tail(t))
  ELSE LET rest == Canon(Tail(t)) IN
       IF rest # <<>> /\ rest[1].c = t[1].c
       THEN <<Run(t[1].c, t[1].n + rest[1].n)>> \o Tail(rest)
       ELSE <<t[1]>> \o rest

\* the arguments a run is given: an argument that holds a space and a double
\* quote, and one as long as the path buffer
ArgTexts ==
  { <<Run("b", 1), Run(" ", 1), Run("\"", 1)>>,
    <<Run("a", exePathBufLen)>> }
ArgLens == {StrLen(a) : a \in ArgTexts}

\* what SearchPath can report: 0 (not found), a length, a required size
PathLens == {0, 1, exePathBufLen - 2, exePathBufLen - 1, exePathBufLen,
             exePathBufLen + 1}

\* the contents of exePathBuf after a SearchPath that reported plen
ExePathText(plen) == <<Run("p", plen)>>

Min(a, b) == IF a < b THEN a ELSE b

\* affinity masks of a w-bit platform: the zero mask, runs of CPUs starting at
\* any position, and a lowest CPU together with the highest one
Masks(w) ==
  {{}} \cup {i..Min(i + k, w - 1) : i \in 0..(w - 1), k \in 0..MaxExtraCpus}
       \cup {{i, w - 1} : i \in 0..(w - 1)}

\* ------------------------------------------------------- pure computations
\* _BitScanForward / _BitScanForward64: scan from bit 0 upwards; the result is
\* w when no bit is set (the intrinsic then returns 0 and stores nothing)
RECURSIVE ScanFrom(_, _, _)
ScanFrom(mask, i, w) ==
  IF i >= w THEN w
  ELSE IF i \in mask THEN i
  ELSE ScanFrom(mask, i + 1, w)

\* a scan from the most significant bit downwards (_BitScanReverse)
RECURSIVE ScanDownFrom(_, _, _)
ScanDownFrom(mask, i, w) ==
  IF i < 0 THEN w
  ELSE IF i \in mask THEN i
  ELSE ScanDownFrom(mask, i - 1, w)

CPU_BITSCANREVERSE(mask, w) == ScanDownFrom(mask, w - 1, w)

CPU_BITSCANFORWARD(mask, w) == ScanFrom(mask, 0, w)

\* (1 << index) evaluated in int: the 32-bit patterns the build can produce.
\* index < 31 sets bit index; index = 31 sets the sign bit (INT_MIN); a shift
\* count of 32 or more is undefined: the x86 shift uses the count modulo 32,
\* an optimiser may equally yield 0.
IntShiftLeftOne(i) ==
  IF i < IntBits THEN {{i}}
  ELSE {{i % IntBits}, {}}

\* conversion of an int to DWORD_PTR of w bits: sign extension
ToDwordPtr(bits, w) ==
  IF (IntBits - 1) \in bits THEN bits \cup (IntBits..(w - 1)) ELSE bits

\* the values basicLimitInfo.Affinity = (1 << index) can take
AffinityValues(i, w) == {ToDwordPtr(b, w) : b \in IntShiftLeftOne(i)}

\* a loop that appends the separating space after every argument
RECURSIVE QuoteLoop_SpaceAfterEach(_, _, _, _)
QuoteLoop_SpaceAfterEach(i, n, args, oss) ==
  IF i >= n THEN oss
  ELSE QuoteLoop_SpaceAfterEach(i + 1, n, args,
         oss \o <<Run("\"", 1)>> \o args[i] \o <<Run("\"", 1)>> \o <<Run(" ", 1)>>)

\* the loop that appends "argv[i]" and a separating space, from argument i on,
\* to the stream oss
RECURSIVE QuoteLoop(_, _, _, _)
QuoteLoop(i, n, args, oss) ==
  IF i >= n THEN oss
  ELSE QuoteLoop(i + 1, n, args,
                 oss \o <<Run("\"", 1)>> \o args[i] \o <<Run("\"", 1)>>
                     \o (IF i # n - 1 THEN <<Run(" ", 1)>> ELSE <<>>))

\* cmdLine of the direct variant
DirectCmdLine(n, args) == QuoteLoop(1, n, args, <<>>)

\* a search variant that puts the resolved path in front of all arguments
SearchCmdLine_KeepsBareName(n, args, path) ==
  QuoteLoop(1, n, args,
            <<Run("\"", 1)>> \o path \o <<Run("\"", 1)>> \o <<Run(" ", 1)>>)

\* cmdLine of the search variant: the quoted resolved path first
SearchCmdLine(n, args, path) ==
  QuoteLoop(2, n, args,
            <<Run("\"", 1)>> \o path \o <<Run("\"", 1)>>
              \o (IF n > 2 THEN <<Run(" ", 1)>> ELSE <<>>))

\* ------------------------------------------------------------------- Init
ZeroLimit == [LimitFlags |-> {}, Affinity |-> {}]

Init ==
  /\ variant \in Variants
  /\ width \in PointerWidths
  /\ argc \in 1..MaxArgc
  /\ argv \in [1..(argc - 1) -> ArgTexts]
  /\ pc = "start"
  /\ ret = 0
  /\ calls = <<>>
  /\ stderr = <<>>
  /\ held = [r \in Resources |-> FALSE]
  /\ acq = [r \in Resources |-> 0]
  /\ rel = [r \in Resources |-> 0]
  /\ pathLen = 0
  /\ processAffinityMask = {}
  /\ index = 0
  /\ indexSet = FALSE
  /\ basicLimitInfo = ZeroLimit
  /\ limitSet = FALSE
  /\ jobLimit = ZeroLimit
  /\ attrState = "none"
  /\ attrTornDown = "no"
  /\ cmdLine = <<>>
  /\ cmdLineSize = 0
  /\ created = [attempted |-> FALSE, app |-> <<>>, cmdLine |-> <<>>]
  /\ child = "none"
  /\ childExit = 0
  /\ childInJob = FALSE
  /\ exitCode = 0

\* ---------------------------------------------------------------- helpers
inputs == <<variant, width, argc, argv>>
locals == <<pathLen, processAffinityMask, index, indexSet, basicLimitInfo,
            limitSet, cmdLine, cmdLineSize, created, exitCode>>
childVars == <<child, childExit, childInJob>>

Log(api, ok) == calls' = Append(calls, [api |-> api, ok |-> ok])
\* a failure branch that writes nothing
Say_Silent(msg) == stderr' = stderr

\* a diagnostic written to std::wcerr / std::cerr: its text, and whether the
\* value of GetLastError() is written after it
Say(msg) == stderr' = Append(stderr, [text |-> msg, code |-> FALSE])
SayErr(msg) == stderr' = Append(stderr, [text |-> msg, code |-> TRUE])

\* a destructor set in which the thread handle is a raw HANDLE
RunDestructors_RawThreadHandle ==
  /\ rel' = [r \in Resources |->
               IF held[r] /\ r # "childMainThread" THEN rel[r] + 1 ELSE rel[r]]
  /\ held' = [r \in Resources |-> FALSE]
  /\ attrTornDown' =
       IF held["attrList"]
       THEN (IF attrState \in {"initialized", "updated"}
             THEN "initialized" ELSE "uninitialized")
       ELSE attrTornDown

\* the destructors of the owning locals, which run when wmain returns:
\* HandleDeleter closes a non-null handle, ProcThreadAttrListDeleter calls
\* DeleteProcThreadAttributeList on the buffer and frees it, and
\* std::unique_ptr<wchar_t[]> frees the path buffer
RunDestructors ==
  /\ rel' = [r \in Resources |-> IF held[r] THEN rel[r] + 1 ELSE rel[r]]
  /\ held' = [r \in Resources |-> FALSE]
  /\ attrTornDown' =
       IF held["attrList"]
       THEN (IF attrState \in {"initialized", "updated"}
             THEN "initialized" ELSE "uninitialized")
       ELSE attrTornDown

\* return code;
Return(code) ==
  /\ pc' = "returned"
  /\ ret' = code
  /\ RunDestructors

\* operator new throws std::bad_alloc and wmain has no handler: std::terminate
\* ends the process without wmain returning; whether the stack is unwound
\* first is implementation-defined
Throw ==
  /\ pc' = "aborted"
  /\ ret' = ret
  /\ \/ RunDestructors
     \/ UNCHANGED <<held, rel, attrTornDown>>

Goto(l) ==
  /\ pc' = l
  /\ UNCHANGED <<ret, held, rel, attrTornDown>>

\* a unique_ptr local takes ownership of a freshly acquired resource
GotoOwning(l, rs) ==
  /\ pc' = l
  /\ held' = [r \in Resources |-> IF r \in rs THEN TRUE ELSE held[r]]
  /\ UNCHANGED <<ret, rel, attrTornDown>>

Acquire(rs) == acq' = [r \in Resources |-> IF r \in rs THEN acq[r] + 1 ELSE acq[r]]

\* ---------------------------------------------------------------- actions
\* if (argc < 2) { ...; return 1; }
CheckArgc ==
  /\ pc = "start"
  /\ IF argc < 2
     THEN /\ Log("argc", FALSE)
          /\ Say("At least one argument required.")
          /\ Return(1)
     ELSE /\ Log("argc", TRUE)
          /\ UNCHANGED stderr
          /\ Goto(IF variant = "search" THEN "allocExePathBuf" ELSE "createJob")
  /\ UNCHANGED <<inputs, acq, locals, jobLimit, attrState, childVars>>

\* auto exePathBuf = std::make_unique<wchar_t[]>(exePathBufLen);
\* make_unique never yields null, so the check that follows it never fires
AllocExePathBuf ==
  /\ pc = "allocExePathBuf"
  /\ \E ok \in BOOLEAN :
       /\ Log("make_unique", ok)
       /\ IF ok
          THEN /\ Acquire({"exePathBuf"})
               /\ GotoOwning("searchPath", {"exePathBuf"})
          ELSE /\ UNCHANGED acq
               /\ Throw
  /\ UNCHANGED <<inputs, stderr, locals, jobLimit, attrState, childVars>>

\* a search that rejects only a length beyond the buffer capacity
SearchPath_AcceptsCapacity ==
  /\ pc = "searchPath"
  /\ \E len \in PathLens :
       /\ pathLen' = len
       /\ IF len = 0
          THEN /\ Log("SearchPath", FALSE)
               /\ SayErr("SearchPath failed with error code")
               /\ Return(1)
          ELSE IF len > exePathBufLen
          THEN /\ Log("SearchPath", FALSE)
               /\ Say("SearchPath failed: path too long.")
               /\ Return(1)
          ELSE /\ Log("SearchPath", TRUE)
               /\ UNCHANGED stderr
               /\ Goto("createJob")
  /\ UNCHANGED <<inputs, acq, processAffinityMask, index, indexSet,
                 basicLimitInfo, limitSet, cmdLine, cmdLineSize, created, exitCode, jobLimit,
                 attrState, childVars>>

\* DWORD pathLen = SearchPath(...); if (!pathLen) ...; if (pathLen >= exePathBufLen) ...
SearchPath ==
  /\ pc = "searchPath"
  /\ \E len \in PathLens :
       /\ pathLen' = len
       /\ IF len = 0
          THEN /\ Log("SearchPath", FALSE)
               /\ SayErr("SearchPath failed with error code")
               /\ Return(1)
          ELSE IF len >= exePathBufLen
          THEN /\ Log("SearchPath", FALSE)
               /\ Say("SearchPath failed: path too long.")
               /\ Return(1)
          ELSE /\ Log("SearchPath", TRUE)
               /\ UNCHANGED stderr
               /\ Goto("createJob")
  /\ UNCHANGED <<inputs, acq, processAffinityMask, index, indexSet,
                 basicLimitInfo, limitSet, cmdLine, cmdLineSize, created, exitCode, jobLimit,
                 attrState, childVars>>

\* UniqueHandle job(CreateJobObject(nullptr, nullptr)); if (!job) ...
CreateJobObject ==
  /\ pc = "createJob"
  /\ \E ok \in BOOLEAN :
       /\ Log("CreateJobObject", ok)
       /\ IF ok
          THEN /\ Acquire({"job"})
               /\ UNCHANGED stderr
               /\ GotoOwning("getAffinity", {"job"})
          ELSE /\ UNCHANGED acq
               /\ Say("CreateJobObject failed.")
               /\ Return(1)
  /\ UNCHANGED <<inputs, locals, jobLimit, attrState, childVars>>

\* if (!GetProcessAffinityMask(GetCurrentProcess(), &processAffinityMask, ...)) ...
GetProcessAffinityMask ==
  /\ pc = "getAffinity"
  /\ \E ok \in BOOLEAN :
       /\ Log("GetProcessAffinityMask", ok)
       /\ IF ok
          THEN /\ \E m \in Masks(width) : processAffinityMask' = m
               /\ UNCHANGED stderr
               /\ Goto("bitScan")
          ELSE /\ UNCHANGED processAffinityMask
               /\ Say("Unable to obtain our CPU affinity mask.")
               /\ Return(1)
  /\ UNCHANGED <<inputs, acq, pathLen, index, indexSet, basicLimitInfo,
                 limitSet, cmdLine, cmdLineSize, created, exitCode, jobLimit, attrState, childVars>>

\* a bit scan whose result is not checked: a zero mask leaves index at 0
ScanAffinityMask_Unchecked ==
  /\ pc = "bitScan"
  /\ LET i == CPU_BITSCANFORWARD(processAffinityMask, width) IN
       /\ Log("CPU_BITSCANFORWARD", i < width)
       /\ index' = IF i < width THEN i ELSE 0
       /\ indexSet' = (i < width)
       /\ UNCHANGED stderr
       /\ Goto("setJobLimit")
  /\ UNCHANGED <<inputs, acq, pathLen, processAffinityMask, basicLimitInfo,
                 limitSet, cmdLine, cmdLineSize, created, exitCode, jobLimit, attrState, childVars>>

\* unsigned long index; if (!CPU_BITSCANFORWARD(&index, processAffinityMask)) ...
ScanAffinityMask ==
  /\ pc = "bitScan"
  /\ LET i == CPU_BITSCANFORWARD(processAffinityMask, width) IN
       IF i < width
       THEN /\ Log("CPU_BITSCANFORWARD", TRUE)
            /\ index' = i
            /\ indexSet' = TRUE
            /\ UNCHANGED stderr
            /\ Goto("setJobLimit")
       ELSE /\ Log("CPU_BITSCANFORWARD", FALSE)
            /\ UNCHANGED <<index, indexSet>>
            /\ Say("CPU affinity mask is zero?!")
            /\ Return(1)
  /\ UNCHANGED <<inputs, acq, pathLen, processAffinityMask, basicLimitInfo,
                 limitSet, cmdLine, cmdLineSize, created, exitCode, jobLimit, attrState, childVars>>

\* basicLimitInfo = {}; LimitFlags = JOB_OBJECT_LIMIT_AFFINITY;
\* Affinity = (1 << index); if (!SetInformationJobObject(...)) ...
\* the call cannot succeed with an affinity limit of no CPU at all
SetInformationJobObject ==
  /\ pc = "setJobLimit"
  /\ \E a \in AffinityValues(index, width), ok \in BOOLEAN :
       /\ ok => a # {}
       /\ basicLimitInfo' = [LimitFlags |-> {"JOB_OBJECT_LIMIT_AFFINITY"},
                             Affinity |-> a]
       /\ limitSet' = TRUE
       /\ Log("SetInformationJobObject", ok)
       /\ IF ok
          THEN /\ jobLimit' = basicLimitInfo'
               /\ UNCHANGED stderr
               /\ Goto("sizeAttrList")
          ELSE /\ UNCHANGED jobLimit
               /\ Say("Unable to set basic limit information on job object.")
               /\ Return(1)
  /\ UNCHANGED <<inputs, acq, pathLen, processAffinityMask, index, indexSet,
                 cmdLine, cmdLineSize, created, exitCode, attrState, childVars>>

\* SIZE_T attrListSize = 0;
\* if (!InitializeProcThreadAttributeList(nullptr, 1, 0, &attrListSize) &&
\*     GetLastError() != ERROR_INSUFFICIENT_BUFFER) ...
SizeAttributeList ==
  /\ pc = "sizeAttrList"
  /\ \E r \in {"success", "ERROR_INSUFFICIENT_BUFFER", "other error"} :
       IF r = "other error"
       THEN /\ Log("InitializeProcThreadAttributeList(sizing)", FALSE)
            /\ Say("InitializeProcThreadAttributeList for sizing failed")
            /\ Return(1)
       ELSE /\ Log("InitializeProcThreadAttributeList(sizing)", TRUE)
            /\ UNCHANGED stderr
            /\ Goto("allocAttrList")
  /\ UNCHANGED <<inputs, acq, locals, jobLimit, attrState, childVars>>

\* ProcThreadAttributeListPtr attrList(... new char[attrListSize]);
\* new[] never yields null, so the check that follows it never fires
AllocAttributeList ==
  /\ pc = "allocAttrList"
  /\ \E ok \in BOOLEAN :
       /\ Log("new", ok)
       /\ IF ok
          THEN /\ Acquire({"attrList"})
               /\ attrState' = "allocated"
               /\ GotoOwning("initAttrList", {"attrList"})
          ELSE /\ UNCHANGED <<acq, attrState>>
               /\ Throw
  /\ UNCHANGED <<inputs, stderr, locals, jobLimit, childVars>>

\* if (!InitializeProcThreadAttributeList(attrList.get(), 1, 0, &attrListSize)) ...
InitializeProcThreadAttributeList ==
  /\ pc = "initAttrList"
  /\ \E ok \in BOOLEAN :
       /\ Log("InitializeProcThreadAttributeList", ok)
       /\ IF ok
          THEN /\ attrState' = "initialized"
               /\ UNCHANGED stderr
               /\ Goto("updateAttr")
          ELSE /\ UNCHANGED attrState
               /\ Say("InitializeProcThreadAttributeList failed")
               /\ Return(1)
  /\ UNCHANGED <<inputs, acq, locals, jobLimit, childVars>>

\* inheritableHandleWhitelist[] = { stdin, stdout, stderr };
\* if (!UpdateProcThreadAttribute(attrList.get(), ...)) ...
UpdateProcThreadAttribute ==
  /\ pc = "updateAttr"
  /\ \E ok \in BOOLEAN :
       /\ Log("UpdateProcThreadAttribute", ok)
       /\ IF ok
          THEN /\ attrState' = "updated"
               /\ UNCHANGED stderr
               /\ Goto("buildCmdLine")
          ELSE /\ UNCHANGED attrState
               /\ Say("UpdateProcThreadAttribute failed")
               /\ Return(1)
  /\ UNCHANGED <<inputs, acq, locals, jobLimit, childVars>>

\* std::wostringstream oss; ...; std::wstring cmdLine(oss.str());
\* the search variant alone checks cmdLine.size() > exePathBufLen
BuildCmdLine ==
  /\ pc = "buildCmdLine"
  /\ IF variant = "direct"
     THEN /\ cmdLine' = DirectCmdLine(argc, argv)
          /\ cmdLineSize' = StrLen(cmdLine')
          /\ Log("cmdLine", TRUE)
          /\ UNCHANGED stderr
          /\ Goto("createProcess")
     ELSE /\ cmdLine' = SearchCmdLine(argc, argv, ExePathText(pathLen))
          /\ cmdLineSize' = StrLen(cmdLine')
          /\ IF cmdLineSize' > exePathBufLen
             THEN /\ Log("cmdLine", FALSE)
                  /\ Say("Command line is too long for CreateProcess")
                  /\ Return(1)
             ELSE /\ Log("cmdLine", TRUE)
                  /\ UNCHANGED stderr
                  /\ Goto("createProcess")
  /\ UNCHANGED <<inputs, acq, pathLen, processAffinityMask, index, indexSet,
                 basicLimitInfo, limitSet, created, exitCode, jobLimit,
                 attrState, childVars>>

\* lpApplicationName of the CreateProcess call: argv[1] in the direct
\* variant, exePathBuf.get() in the search variant
ApplicationName ==
  IF variant = "direct" THEN argv[1] ELSE ExePathText(pathLen)

\* if (!CreateProcess(..., CREATE_SUSPENDED | ..., &pi)) ...;
\* UniqueHandle childProcess(pi.hProcess); UniqueHandle childMainThread(pi.hThread);
\* CreateProcess cannot succeed with a command line that, with its
\* terminator, is longer than the limit the search variant names
CreateProcess ==
  /\ pc = "createProcess"
  /\ created' = [attempted |-> TRUE, app |-> ApplicationName, cmdLine |-> cmdLine]
  /\ \E ok \in BOOLEAN :
       /\ ok => cmdLineSize + 1 <= exePathBufLen
       /\ Log("CreateProcess", ok)
       /\ IF ok
          THEN /\ child' = "suspended"
               /\ Acquire({"childProcess", "childMainThread"})
               /\ UNCHANGED stderr
               /\ GotoOwning("assign", {"childProcess", "childMainThread"})
          ELSE /\ UNCHANGED <<child, acq>>
               /\ SayErr("CreateProcess failed with error code")
               /\ Return(1)
  /\ UNCHANGED <<inputs, pathLen, processAffinityMask, index, indexSet,
                 basicLimitInfo, limitSet, cmdLine, cmdLineSize, exitCode,
                 jobLimit, attrState, childExit, childInJob>>

\* a termination that leaves the child as it was
TerminateProcess_NoEffect(c) == c

\* TerminateProcess(childProcess.get(), 1): the state of the child after it
TerminateProcess(c) == IF c \in {"suspended", "running"} THEN "terminated" ELSE c

\* an assignment whose failure is reported but not acted upon
AssignProcessToJobObject_FallThrough ==
  /\ pc = "assign"
  /\ \E ok \in BOOLEAN :
       /\ Log("AssignProcessToJobObject", ok)
       /\ childInJob' = ok
       /\ IF ok
          THEN UNCHANGED stderr
          ELSE SayErr("AssignProcessToJobObject failed with error code")
       /\ UNCHANGED <<child, childExit>>
       /\ Goto("resume")
  /\ UNCHANGED <<inputs, acq, locals, jobLimit, attrState>>

\* if (!AssignProcessToJobObject(job.get(), childProcess.get())) {
\*   ...; TerminateProcess(childProcess.get(), 1); return 1; }
AssignProcessToJobObject ==
  /\ pc = "assign"
  /\ \E ok \in BOOLEAN :
       IF ok
       THEN /\ Log("AssignProcessToJobObject", TRUE)
            /\ childInJob' = TRUE
            /\ UNCHANGED <<stderr, child, childExit>>
            /\ Goto("resume")
       ELSE /\ calls' = calls \o <<[api |-> "AssignProcessToJobObject", ok |-> FALSE],
                                   [api |-> "TerminateProcess", ok |-> TRUE]>>
            /\ SayErr("AssignProcessToJobObject failed with error code")
            /\ child' = TerminateProcess(child)
            /\ childExit' = IF child' # child THEN 1 ELSE childExit
            /\ UNCHANGED childInJob
            /\ Return(1)
  /\ UNCHANGED <<inputs, acq, locals, jobLimit, attrState>>

\* if (ResumeThread(childMainThread.get()) == ((DWORD)-1)) {
\*   ...; TerminateProcess(childProcess.get(), 1); return 1; }
ResumeThread ==
  /\ pc = "resume"
  /\ \E ok \in BOOLEAN :
       IF ok
       THEN /\ Log("ResumeThread", TRUE)
            /\ child' = "running"
            /\ UNCHANGED <<stderr, childExit>>
            /\ Goto("wait")
       ELSE /\ calls' = calls \o <<[api |-> "ResumeThread", ok |-> FALSE],
                                   [api |-> "TerminateProcess", ok |-> TRUE]>>
            /\ SayErr("ResumeThread failed with error code")
            /\ child' = TerminateProcess(child)
            /\ childExit' = IF child' # child THEN 1 ELSE childExit
            /\ Return(1)
  /\ UNCHANGED <<inputs, acq, locals, jobLimit, attrState, childInJob>>

\* the resumed child runs and exits with a code of its own
ChildExits ==
  /\ child = "running"
  /\ \E e \in ExitCodes :
       /\ child' = "exited"
       /\ childExit' = e
  /\ UNCHANGED <<inputs, pc, ret, calls, stderr, held, acq, rel, locals,
                 jobLimit, attrState, attrTornDown, childInJob>>

\* the child after the tool's job object handle, the only one, was closed:
\* the members of a job object are terminated with it when the job carries
\* JOB_OBJECT_LIMIT_KILL_ON_JOB_CLOSE, and are left running otherwise
JobHandleClosed(c) ==
  IF /\ childInJob
     /\ "JOB_OBJECT_LIMIT_KILL_ON_JOB_CLOSE" \in jobLimit.LimitFlags
     /\ c \in {"suspended", "running"}
  THEN "terminated"
  ELSE c

\* a wait whose failure is reported but not acted upon
WaitForSingleObject_ContinuesOnFailure ==
  /\ pc = "wait"
  /\ \E r \in {"WAIT_OBJECT_0", "WAIT_FAILED"} :
       IF r = "WAIT_OBJECT_0"
       THEN /\ child \in {"exited", "terminated"}
            /\ Log("WaitForSingleObject", TRUE)
            /\ UNCHANGED stderr
            /\ Goto("getExitCode")
       ELSE /\ Log("WaitForSingleObject", FALSE)
            /\ SayErr("WaitForSingleObject failed with error code")
            /\ Goto("getExitCode")
  /\ UNCHANGED <<inputs, acq, locals, jobLimit, attrState, childVars>>

\* a wait with a zero timeout: it reports success whether or not the child
\* is dead
WaitForSingleObject_NoBlock ==
  /\ pc = "wait"
  /\ \E r \in {"WAIT_OBJECT_0", "WAIT_FAILED"} :
       IF r = "WAIT_OBJECT_0"
       THEN /\ Log("WaitForSingleObject", TRUE)
            /\ UNCHANGED <<stderr, child>>
            /\ Goto("getExitCode")
       ELSE /\ Log("WaitForSingleObject", FALSE)
            /\ SayErr("WaitForSingleObject failed with error code")
            /\ child' = JobHandleClosed(child)
            /\ Return(0)
  /\ UNCHANGED <<inputs, acq, locals, jobLimit, attrState, childExit, childInJob>>

\* if (WaitForSingleObject(childProcess.get(), INFINITE) != WAIT_OBJECT_0) {
\*   ...; return 0; }
\* the wait reports WAIT_OBJECT_0 only once the child is dead, and blocks while
\* it is alive; it can fail (WAIT_FAILED) at any time
WaitForSingleObject ==
  /\ pc = "wait"
  /\ \E r \in {"WAIT_OBJECT_0", "WAIT_FAILED"} :
       IF r = "WAIT_OBJECT_0"
       THEN /\ child \in {"exited", "terminated"}
            /\ Log("WaitForSingleObject", TRUE)
            /\ UNCHANGED <<stderr, child>>
            /\ Goto("getExitCode")
       ELSE /\ Log("WaitForSingleObject", FALSE)
            /\ SayErr("WaitForSingleObject failed with error code")
            /\ child' = JobHandleClosed(child)
            /\ Return(0)
  /\ UNCHANGED <<inputs, acq, locals, jobLimit, attrState, childExit, childInJob>>

\* a retrieval whose failure is treated as a launch failure
GetExitCodeProcess_FailureReturnsOne ==
  /\ pc = "getExitCode"
  /\ \E ok \in BOOLEAN :
       /\ Log("GetExitCodeProcess", ok)
       /\ exitCode' = IF ok THEN childExit ELSE 0
       /\ IF ok
          THEN UNCHANGED stderr
          ELSE SayErr("GetExitCodeProcess failed with error code")
       /\ Return(IF ok THEN exitCode' ELSE 1)
  /\ UNCHANGED <<inputs, acq, pathLen, processAffinityMask, index, indexSet,
                 basicLimitInfo, limitSet, cmdLine, cmdLineSize, created, jobLimit,
                 attrState,
                 childVars>>

\* DWORD exitCode = 0; if (!GetExitCodeProcess(childProcess.get(), &exitCode)) ...;
\* return exitCode;
GetExitCodeProcess ==
  /\ pc = "getExitCode"
  /\ \E ok \in BOOLEAN :
       /\ Log("GetExitCodeProcess", ok)
       /\ exitCode' = IF ok THEN childExit ELSE 0
       /\ IF ok
          THEN UNCHANGED stderr
          ELSE SayErr("GetExitCodeProcess failed with error code")
       /\ Return(exitCode')
  /\ UNCHANGED <<inputs, acq, pathLen, processAffinityMask, index, indexSet,
                 basicLimitInfo, limitSet, cmdLine, cmdLineSize, created, jobLimit,
                 attrState,
                 childVars>>

Next ==
  \/ CheckArgc
  \/ AllocExePathBuf
  \/ SearchPath
  \/ CreateJobObject
  \/ GetProcessAffinityMask
  \/ ScanAffinityMask
  \/ SetInformationJobObject
  \/ SizeAttributeList
  \/ AllocAttributeList
  \/ InitializeProcThreadAttributeList
  \/ UpdateProcThreadAttribute
  \/ BuildCmdLine
  \/ CreateProcess
  \/ AssignProcessToJobObject
  \/ ResumeThread
  \/ ChildExits
  \/ WaitForSingleObject
  \/ GetExitCodeProcess

Spec == Init /\ [][Next]_vars

\* the steps of the tool itself
ToolStep ==
  \/ CheckArgc
  \/ AllocExePathBuf
  \/ SearchPath
  \/ CreateJobObject
  \/ GetProcessAffinityMask
  \/ ScanAffinityMask
  \/ SetInformationJobObject
  \/ SizeAttributeList
  \/ AllocAttributeList
  \/ InitializeProcThreadAttributeList
  \/ UpdateProcThreadAttribute
  \/ BuildCmdLine
  \/ CreateProcess
  \/ AssignProcessToJobObject
  \/ ResumeThread
  \/ WaitForSingleObject
  \/ GetExitCodeProcess

\* wmain is one thread that runs to its end: every OS call it makes returns,
\* the wait included once the child is dead; and a resumed child terminates
FairSpec == Spec /\ WF_vars(ToolStep) /\ WF_vars(ChildExits)

\* ------------------------------------------------------------- type check
TypeOK ==
  /\ pc \in {"start", "allocExePathBuf", "searchPath", "createJob",
             "getAffinity", "bitScan", "setJobLimit", "sizeAttrList",
             "allocAttrList", "initAttrList", "updateAttr", "buildCmdLine",
             "createProcess", "assign", "resume", "wait", "getExitCode",
             "returned", "aborted"}
  /\ child \in {"none", "suspended", "running", "exited", "terminated"}
  /\ attrState \in {"none", "allocated", "initialized", "updated"}
  /\ processAffinityMask \subseteq 0..(width - 1)
  /\ index \in 0..(width - 1)

\* ----------------------------------------------------------------- claims
Made(api, ok) == \E i \in DOMAIN calls : calls[i] = [api |-> api, ok |-> ok]
Attempted(api) == \E i \in DOMAIN calls : calls[i].api = api

\* the resources the tool acquires from the OS
OsResources == {"job", "attrList", "childProcess", "childMainThread"}

\* C1: the child's initial thread is resumed only after
\* AssignProcessToJobObject succeeded for it: every ResumeThread call is
\* preceded by a successful AssignProcessToJobObject, and a child that has
\* been resumed (it runs or has exited) is a member of the job object.
C1_ResumeOnlyAfterAssign ==
  /\ \A i \in DOMAIN calls :
       calls[i].api = "ResumeThread" =>
         \E j \in 1..(i - 1) :
           calls[j] = [api |-> "AssignProcessToJobObject", ok |-> TRUE]
  /\ child \in {"running", "exited"} => childInJob

C1_Witness ==
  /\ Made("ResumeThread", TRUE)
  /\ child = "running"
  /\ childInJob

\* C2: on every return of wmain each OS resource acquired on that path has
\* been released exactly once, and none is ever released twice or without
\* having been acquired.
C2_ReleasedExactlyOnce ==
  /\ \A r \in OsResources : rel[r] <= acq[r] /\ rel[r] <= 1
  /\ pc = "returned" => \A r \in OsResources : rel[r] = acq[r] /\ ~held[r]

C2_Witness ==
  /\ pc = "returned"
  /\ ret = 0
  /\ \A r \in OsResources : acq[r] = 1 /\ rel[r] = 1

PreCreateSteps ==
  {"argc", "make_unique", "SearchPath", "CreateJobObject",
   "GetProcessAffinityMask", "CPU_BITSCANFORWARD", "SetInformationJobObject",
   "InitializeProcThreadAttributeList(sizing)", "new",
   "InitializeProcThreadAttributeList", "UpdateProcThreadAttribute",
   "cmdLine", "CreateProcess"}

\* C4: when a step up to and including CreateProcess fails, the tool returns
\* exit code 1, no child process exists, and the failing step is the last
\* step of the run.
C4_LaunchFailureReturnsOne ==
  \A i \in DOMAIN calls :
    (calls[i].api \in PreCreateSteps /\ ~calls[i].ok) =>
      /\ pc = "returned"
      /\ ret = 1
      /\ child = "none"
      /\ i = Len(calls)

\* C5: when binding the created child to the job object fails, or resuming
\* its initial thread fails, the tool calls TerminateProcess on the child and
\* returns 1: once it has returned the child is terminated, neither suspended
\* nor running.
C5_FailedBindOrResumeKillsChild ==
  \A i \in DOMAIN calls :
    (calls[i].api \in {"AssignProcessToJobObject", "ResumeThread"} /\ ~calls[i].ok) =>
      /\ pc = "returned"
      /\ ret = 1
      /\ child = "terminated"
      /\ Len(calls) = i + 1
      /\ calls[i + 1].api = "TerminateProcess"

C5_Witness ==
  /\ Made("ResumeThread", FALSE)
  /\ pc = "returned"
  /\ child = "terminated"
  /\ childInJob

\* C6: when WaitForSingleObject returns anything but WAIT_OBJECT_0 the tool
\* returns 0, GetExitCodeProcess is never called and the child is not
\* terminated by the tool.
C6_WaitFailureReturnsZero ==
  Made("WaitForSingleObject", FALSE) =>
    /\ pc = "returned"
    /\ ret = 0
    /\ ~Attempted("GetExitCodeProcess")
    /\ ~Attempted("TerminateProcess")
    /\ child # "terminated"
    /\ calls[Len(calls)].api = "WaitForSingleObject"

C6_Witness ==
  /\ Made("WaitForSingleObject", FALSE)
  /\ pc = "returned"
  /\ child = "running"

\* C7 as stated: in every run that created a child, once the job object
\* handle has been closed the child has terminated or has been terminated by
\* the tool.
C7_JobClosedOnlyAfterChildDead ==
  (rel["job"] = 1 /\ child # "none") => child \in {"exited", "terminated"}

\* C7 amended: in every run that created a child and in which the wait did
\* not fail, once the job object handle has been closed the child has
\* terminated or has been terminated by the tool.
C7_JobClosedAfterChildDeadUnlessWaitFailed ==
  (rel["job"] = 1 /\ child # "none" /\ ~Made("WaitForSingleObject", FALSE)) =>
    child \in {"exited", "terminated"}

C7_Witness ==
  /\ rel["job"] = 1
  /\ Made("WaitForSingleObject", TRUE)
  /\ child = "exited"

\* C8: the affinity written into the job object's basic limit has exactly one
\* bit set, the bit of the selected CPU index.
C8_AffinityIsSelectedCpuBit ==
  limitSet =>
    /\ Cardinality(basicLimitInfo.Affinity) = 1
    /\ basicLimitInfo.Affinity = {index}

\* C9: once selected, the CPU index is the position of the lowest set bit of
\* the affinity mask (it is below the mask width, its bit is set and no lower
\* bit is), the bit scan runs at most once, and the index and the mask never
\* change afterwards.
C9_IndexIsLowestSetBit ==
  /\ [](indexSet =>
          /\ index \in 0..(width - 1)
          /\ index \in processAffinityMask
          /\ \A j \in 0..(index - 1) : j \notin processAffinityMask
          /\ Cardinality({i \in DOMAIN calls : calls[i].api = "CPU_BITSCANFORWARD"}) = 1)
  /\ [][indexSet =>
          /\ indexSet'
          /\ index' = index
          /\ processAffinityMask' = processAffinityMask]_vars

C9_Witness ==
  /\ indexSet
  /\ index >= IntBits
  /\ Cardinality(processAffinityMask) > 1

\* C10 as stated: when the affinity mask is zero the tool returns 1 and no
\* job object is created in that run.
C10_ZeroMaskNoJobCreated ==
  Made("CPU_BITSCANFORWARD", FALSE) =>
    /\ pc = "returned"
    /\ ret = 1
    /\ acq["job"] = 0

\* C10 amended: when the affinity mask is zero the tool returns 1; the job
\* object, created before the mask was read, is never configured, no child is
\* created, and its handle has been closed when the tool returns.
C10_ZeroMaskJobUnusedAndClosed ==
  Made("CPU_BITSCANFORWARD", FALSE) =>
    /\ processAffinityMask = {}
    /\ pc = "returned"
    /\ ret = 1
    /\ acq["job"] = 1
    /\ rel["job"] = 1
    /\ ~limitSet
    /\ jobLimit = ZeroLimit
    /\ child = "none"
    /\ ~Attempted("SetInformationJobObject")

C10_Witness ==
  /\ Made("CPU_BITSCANFORWARD", FALSE)
  /\ processAffinityMask = {}
  /\ pc = "returned"
  /\ rel["job"] = 1

\* an argument between one pair of double quotes
Quoted(a) == <<Run("\"", 1)>> \o a \o <<Run("\"", 1)>>

\* the quoted arguments of a list, one space between neighbours
RECURSIVE JoinQuoted(_)
JoinQuoted(args) ==
  IF args = <<>> THEN <<>>
  ELSE IF Len(args) = 1 THEN Quoted(args[1])
  ELSE Quoted(args[1]) \o <<Run(" ", 1)>> \o JoinQuoted(Tail(args))

\* the arguments the command line is made of: argv[1..argc-1], with the
\* resolved path in the place of argv[1] in the search variant
CmdLineArgs ==
  IF variant = "direct" THEN argv
  ELSE <<ExePathText(pathLen)>> \o Tail(argv)

FirstChar(t) == Canon(t)[1].c
LastChar(t) == Canon(t)[Len(Canon(t))].c

\* C11: once assembled, the command line is the text made of each argument
\* wrapped verbatim in one pair of double quotes, one space between
\* neighbours, with neither a leading nor a trailing space; in the direct
\* variant the arguments are argv[1..argc-1] in order.
C11_CmdLineIsQuotedArgs ==
  Attempted("cmdLine") =>
    /\ Canon(cmdLine) = Canon(JoinQuoted(CmdLineArgs))
    /\ cmdLineSize = StrLen(JoinQuoted(CmdLineArgs))
    /\ FirstChar(cmdLine) = "\"" /\ LastChar(cmdLine) = "\""
    /\ variant = "direct" => Canon(cmdLine) = Canon(JoinQuoted(argv))

C11_Witness ==
  /\ Attempted("cmdLine")
  /\ variant = "direct"
  /\ argc = 3
  /\ argv[1] = <<Run("b", 1), Run(" ", 1), Run("\"", 1)>>
  /\ argv[2] = <<Run("b", 1), Run(" ", 1), Run("\"", 1)>>
  /\ cmdLine = <<Run("\"", 1), Run("b", 1), Run(" ", 1), Run("\"", 1), Run("\"", 1),
                 Run(" ", 1),
                 Run("\"", 1), Run("b", 1), Run(" ", 1), Run("\"", 1), Run("\"", 1)>>

\* C12: in the search variant the command line starts with the quoted
\* resolved path, which is also the application name given to CreateProcess;
\* it is followed by argv[2..argc-1], quoted, in order, and argv[1] is not
\* part of it.
C12_SearchCmdLineStartsWithResolvedPath ==
  (variant = "search" /\ Attempted("cmdLine")) =>
    /\ SubSeq(Canon(cmdLine), 1, 2) = <<Run("\"", 1), Run("p", pathLen)>>
    /\ Canon(cmdLine)[3].c = "\""
    /\ Canon(cmdLine) =
         Canon(JoinQuoted(<<ExePathText(pathLen)>> \o
                          [i \in 1..(argc - 2) |-> argv[i + 1]]))
    /\ Canon(cmdLine) # Canon(JoinQuoted(argv))
    /\ Canon(cmdLine) # Canon(JoinQuoted(<<ExePathText(pathLen)>> \o argv))
    /\ created.attempted =>
         /\ created.app = ExePathText(pathLen)
         /\ created.cmdLine = cmdLine

C12_Witness ==
  /\ variant = "search"
  /\ created.attempted
  /\ argc = 4
  /\ created.app = <<Run("p", 1)>>
  /\ created.cmdLine =
       <<Run("\"", 1), Run("p", 1), Run("\"", 1), Run(" ", 1),
         Run("\"", 1), Run("b", 1), Run(" ", 1), Run("\"", 1), Run("\"", 1),
         Run(" ", 1),
         Run("\"", 1), Run("b", 1), Run(" ", 1), Run("\"", 1), Run("\"", 1)>>

\* C13: in the search variant a resolved path whose reported length is at or
\* beyond the buffer capacity makes the tool return 1 with its "path too
\* long" diagnostic, before the command line is assembled and without a
\* process being created; a path is accepted only when its length is strictly
\* below the capacity.
C13_PathAtCapacityRejected ==
  (variant = "search" /\ Attempted("SearchPath")) =>
    /\ pathLen >= exePathBufLen =>
         /\ pc = "returned"
         /\ ret = 1
         /\ calls[Len(calls)] = [api |-> "SearchPath", ok |-> FALSE]
         /\ stderr = <<[text |-> "SearchPath failed: path too long.", code |-> FALSE]>>
         /\ ~Attempted("cmdLine")
         /\ ~created.attempted
         /\ child = "none"
    /\ Made("SearchPath", TRUE) => (0 < pathLen /\ pathLen < exePathBufLen)

C13_Witness ==
  /\ variant = "search"
  /\ pathLen = exePathBufLen
  /\ pc = "returned"
  /\ ret = 1

\* C14: in both variants, when the assembled command line with its
\* terminator is longer than the command-line limit (exePathBufLen
\* characters), command assembly fails with the "command line is too long"
\* diagnostic, the tool returns 1 and CreateProcess is not attempted.
C14_TooLongCmdLineRejected ==
  (Attempted("cmdLine") /\ cmdLineSize + 1 > exePathBufLen) =>
    /\ pc = "returned"
    /\ ret = 1
    /\ stderr = <<[text |-> "Command line is too long for CreateProcess",
                   code |-> FALSE]>>
    /\ ~created.attempted

\* C15: the job object handle stays open from its creation until the tool
\* exits, and once the tool has exited no member of the job object is alive:
\* closing the handle terminates a child that is still running.
C15_NoChildOutlivesLauncher ==
  /\ (acq["job"] = 1 /\ pc \notin {"returned", "aborted"}) =>
       (held["job"] /\ rel["job"] = 0)
  /\ (pc \in {"returned", "aborted"} /\ childInJob) =>
       child \in {"exited", "terminated"}

\* the tool has ended: wmain has returned, or the process was ended by
\* std::terminate
Ended == pc \in {"returned", "aborted"}
ChildDead == child \in {"exited", "terminated"}

\* the wait is entered only right after a successful ResumeThread
WaitEnteredAfterResume ==
  pc = "wait" => calls[Len(calls)] = [api |-> "ResumeThread", ok |-> TRUE]

\* every step but the wait can always be taken: nothing else blocks
OnlyWaitBlocks ==
  /\ (~Ended /\ pc # "wait") => ENABLED ToolStep
  /\ (pc = "wait" /\ ChildDead) => ENABLED ToolStep

\* C16 as stated: the wait is the only blocking step and is entered only
\* after a successful resume; every run eventually ends; and the tool leaves
\* the wait only once the child has terminated.
C16_LeavesWaitOnlyWhenChildDead ==
  /\ [](WaitEnteredAfterResume /\ OnlyWaitBlocks)
  /\ <>Ended
  /\ [][(pc = "wait" /\ pc' # "wait") => ChildDead]_vars

\* C16 amended: the wait is the only blocking step and is entered only after
\* a successful resume; when every other OS call returns and the child
\* eventually terminates every run eventually ends; and the tool leaves the
\* wait only once the child has terminated or when the wait call itself
\* fails, in which case it returns at once.
C16_LeavesWaitWhenChildDeadOrWaitFails ==
  /\ [](WaitEnteredAfterResume /\ OnlyWaitBlocks)
  /\ <>Ended
  /\ [][(pc = "wait" /\ pc' # "wait") =>
          \/ ChildDead /\ pc' = "getExitCode"
          \/ /\ calls'[Len(calls')] = [api |-> "WaitForSingleObject", ok |-> FALSE]
             /\ pc' = "returned"]_vars

C16_Witness ==
  /\ pc = "wait"
  /\ child = "running"
  /\ Made("ResumeThread", TRUE)

\* the failed steps that have a failure branch of their own in wmain
FailedSteps ==
  {i \in DOMAIN calls : ~calls[i].ok /\ calls[i].api \notin {"new", "make_unique"}}

\* the failure branches that write GetLastError() after their text
ReportsErrorCode(api) ==
  \/ api \in {"CreateProcess", "AssignProcessToJobObject", "ResumeThread",
              "WaitForSingleObject", "GetExitCodeProcess"}
  \/ api = "SearchPath" /\ pathLen = 0

\* C17 as stated: every failing step has written a failure description that
\* includes the OS error code before the tool returns, and a run in which no
\* step failed has written nothing.
C17_EveryDiagnosticHasErrorCode ==
  /\ FailedSteps # {} =>
       /\ pc = "returned"
       /\ stderr # <<>>
       /\ \A j \in DOMAIN stderr : stderr[j].code
  /\ FailedSteps = {} => stderr = <<>>

\* C17 amended: every failing step has written exactly one failure
\* description before the tool returns; the description includes the OS error
\* code for a failed SearchPath lookup, CreateProcess,
\* AssignProcessToJobObject, ResumeThread, WaitForSingleObject and
\* GetExitCodeProcess, and is plain text for the other steps; a run in which
\* no step failed has written nothing.
C17_OneDiagnosticPerFailure ==
  /\ Cardinality(FailedSteps) <= 1
  /\ Len(stderr) = Cardinality(FailedSteps)
  /\ \A i \in FailedSteps :
       /\ pc = "returned"
       /\ stderr[1].text # ""
       /\ stderr[1].code = ReportsErrorCode(calls[i].api)

C17_Witness ==
  /\ Made("CreateJobObject", FALSE)
  /\ pc = "returned"
  /\ stderr = <<[text |-> "CreateJobObject failed.", code |-> FALSE]>>

\* what C18 requires of the state in which CreateProcess is called, but for
\* the width of the affinity limit
CreatePreconditions ==
  /\ Made("CreateJobObject", TRUE)
  /\ Made("SetInformationJobObject", TRUE)
  /\ jobLimit.LimitFlags = {"JOB_OBJECT_LIMIT_AFFINITY"}
  /\ jobLimit = basicLimitInfo
  /\ Made("InitializeProcThreadAttributeList", TRUE)
  /\ Made("UpdateProcThreadAttribute", TRUE)
  /\ attrState = "updated"
  /\ variant = "search" =>
       (Made("SearchPath", TRUE) /\ 0 < pathLen /\ pathLen < exePathBufLen)

\* C18: CreateProcess is called at most once in a run, and only when the job
\* object exists and carries a successfully applied affinity limit of a
\* single CPU, the attribute list has been initialised and updated with the
\* handle list and is still owned (not released), and, in the search variant,
\* the executable was resolved to a path shorter than the buffer.
C18_CreateOnceWhenReady ==
  /\ [](/\ Cardinality({i \in DOMAIN calls : calls[i].api = "CreateProcess"}) <= 1
        /\ created.attempted =>
             (CreatePreconditions /\ Cardinality(jobLimit.Affinity) = 1))
  /\ [][(~created.attempted /\ created.attempted') =>
          /\ pc = "createProcess"
          /\ held["job"] /\ rel["job"] = 0
          /\ held["attrList"] /\ rel["attrList"] = 0
          /\ attrTornDown = "no"]_vars

\* C19: DeleteProcThreadAttributeList is called only on an attribute list
\* that InitializeProcThreadAttributeList initialised; when the initialising
\* call fails the buffer is freed once without the list being torn down.
C19_TeardownOnlyOfInitializedList ==
  /\ attrTornDown \in {"no", "initialized"}
  /\ (Made("InitializeProcThreadAttributeList", FALSE) /\ pc = "returned") =>
       (rel["attrList"] = 1 /\ attrTornDown = "no")

====
